---- MODULE Spec2Model ----
(***************************************************************************)
(* The overlay synchronisation protocol of EstateOverlay.tsx: the handlers *)
(* registered on the LiveKit room (DataReceived, Connected, Reconnected),  *)
(* the React state they write (menuItems, propertyDetail, directions,      *)
(* leadStatus, selectedPropertyId, statusBanner, timeline), the refs that  *)
(* hold the replay cache and the last overlay id, and the visitor events   *)
(* published back to the agent.                                            *)
(*                                                                         *)
(* JavaScript values are encoded as follows.  A string field that is       *)
(* missing is the string Undefined; a state that holds null is the string  *)
(* Null.  An array is [arr |-> TRUE, v |-> <<...>>] and a value that is    *)
(* not an array is NotArray.  An object with an id (a property record) is  *)
(* [tag |-> "record", id |-> ...].  A timeline text is the template        *)
(* literal that built it and the values interpolated into it.              *)
(***************************************************************************)
EXTENDS Naturals, Sequences, FiniteSets, TLC

VARIABLES
    timeline,            \* useState<TimelineEntry[]>([])
    menuItems,           \* useState<PropertyMenuItem[]>([])
    selectedPropertyId,  \* useState<string>()
    propertyDetail,      \* useState<PropertyDetail | null>(null)
    leadStatus,          \* useState<string | null>(null)
    directions,          \* useState<ClientDirectionsRPC | null>(null)
    statusBanner,        \* useState<string | null>(null)
    lastOverlayIdRef,    \* useRef<string>()
    menuCacheRef,        \* useRef<PropertyMenuItem[]>([])
    detailCacheRef,      \* useRef<PropertyDetail | null>(null)
    directionsCacheRef,  \* useRef<ClientDirectionsRPC | null>(null)
    outbox,              \* the publishData calls made by the handler that ran last
    transport,           \* the room's connection: "new", "up" or "down"
    lastEvent,           \* history: the event the last handler ran for
    lastMenu,            \* history: the last menu-update envelope applied
    ackRecord,           \* history: overlayId and outcome of the last envelope that carried one
    recent,              \* history: kind, dialect and overlayId of the last two overlay datagrams
    received,            \* history: the number of data messages delivered
    ctaBusy,             \* useState(false)
    ctaTimers,           \* the pending setTimeout(() => setCtaBusy(false), 1200) callbacks
    connects,            \* history: the number of times the room connected again
    notices              \* history: the conversation messages with a text delivered, as timeline entries

vars == <<timeline, menuItems, selectedPropertyId, propertyDetail, leadStatus,
          directions, statusBanner, lastOverlayIdRef, menuCacheRef, detailCacheRef,
          directionsCacheRef, outbox, transport, lastEvent, lastMenu, ackRecord,
          recent, received, ctaBusy, ctaTimers, connects, notices>>

----------------------------------------------------------------------------
(* Bounds of the model. *)

\* the data messages a session is followed for
MaxReceived == 2

\* the times a room that was dropped connects anew
MaxConnects == 1

\* the busy timers pending at once
MaxPending == 2

\* the conversation messages a long conversation is followed for
MaxNotices == 22

(* Program constants. *)

\* entries.length > 20: the timeline keeps its last 20 entries
TimelineLimit == 20

----------------------------------------------------------------------------
(* JavaScript values. *)

Undefined == "undefined"
Null == "null"

Truthy(s) == s \notin {Undefined, Null, ""}

JsArray(v) == [arr |-> TRUE, v |-> v]
NotArray == [arr |-> FALSE, v |-> <<>>]

Record(id) == [tag |-> "record", id |-> id]
NoRecord == [tag |-> Undefined, id |-> Undefined]
NullRecord == [tag |-> Null, id |-> Undefined]

\* x ?? y
Coalesce(x, y) == IF x = Undefined \/ x = Null THEN y ELSE x
CoalesceRecord(x, y) == IF x.tag \in {Undefined, Null} THEN y ELSE x

NullDirections ==
    [tag |-> Null, action |-> Undefined, overlayId |-> Undefined, locations |-> NotArray]

Text(tpl, args) == [tpl |-> tpl, args |-> args]
Plain(s) == Text("%s", <<s>>)
TruthyText(t) == ~(t.tpl = "%s" /\ ~Truthy(t.args[1]))

----------------------------------------------------------------------------
(* The payload of a data message, with every field the handlers read. *)

EmptyPayload ==
    [kind |-> Undefined, action |-> Undefined, overlayId |-> Undefined,
     items |-> NotArray, item |-> NoRecord, property |-> NoRecord,
     locations |-> NotArray, fullName |-> Undefined, message |-> Undefined,
     text |-> Undefined]

\* the component's state as the handlers see it; outbox starts empty in each handler
State ==
    [timeline |-> timeline, menuItems |-> menuItems,
     selectedPropertyId |-> selectedPropertyId, propertyDetail |-> propertyDetail,
     leadStatus |-> leadStatus, directions |-> directions,
     statusBanner |-> statusBanner, lastOverlayIdRef |-> lastOverlayIdRef,
     menuCacheRef |-> menuCacheRef, detailCacheRef |-> detailCacheRef,
     directionsCacheRef |-> directionsCacheRef, ctaBusy |-> ctaBusy,
     outbox |-> <<>>]

----------------------------------------------------------------------------
(* The callbacks of the component. *)

\* a timeline that keeps its first 20 entries
appendTimeline_KeepsFirst(s, role, text) ==
    IF ~TruthyText(text) THEN s
    ELSE LET entries == Append(s.timeline, [role |-> role, text |-> text])
         IN  [s EXCEPT !.timeline =
                 IF Len(entries) > TimelineLimit
                 THEN SubSeq(entries, 1, TimelineLimit)
                 ELSE entries]

appendTimeline(s, role, text) ==
    IF ~TruthyText(text) THEN s
    ELSE LET entries == Append(s.timeline, [role |-> role, text |-> text])
         IN  [s EXCEPT !.timeline =
                 IF Len(entries) > TimelineLimit
                 THEN SubSeq(entries, Len(entries) - TimelineLimit + 1, Len(entries))
                 ELSE entries]

VisitorPayload ==
    [overlayId |-> Undefined, status |-> Undefined, propertyId |-> Undefined,
     fullName |-> Undefined]

\* a publish that is attempted once more when it fails
sendVisitorEvent_Retry(s, type, payload, ok) ==
    LET attempt == [type |-> type, payload |-> payload, topic |-> type,
                    reliable |-> TRUE, ok |-> ok]
    IN  [s EXCEPT !.outbox = IF ok THEN Append(@, attempt)
                             ELSE Append(Append(@, attempt), attempt)]

\* ok: whether publishData went through; a failure is caught and logged
sendVisitorEvent(s, type, payload, ok) ==
    [s EXCEPT !.outbox = Append(@, [type |-> type, payload |-> payload,
                                    topic |-> type, reliable |-> TRUE, ok |-> ok])]

\* an acknowledgment that is not sent again for the overlayId already recorded
sendOverlayAck_Dedup(s, overlayId, status, ok) ==
    IF ~Truthy(overlayId) \/ overlayId = s.lastOverlayIdRef THEN s
    ELSE sendVisitorEvent(s, "agent.overlayAck",
             [VisitorPayload EXCEPT !.overlayId = overlayId, !.status = status], ok)

\* an acknowledgment sent without looking at the overlayId
sendOverlayAck_NoGuard(s, overlayId, status, ok) ==
    sendVisitorEvent(s, "agent.overlayAck",
        [VisitorPayload EXCEPT !.overlayId = overlayId, !.status = status], ok)

\* an acknowledgment of the overlayId recorded last, not of the envelope's own
sendOverlayAck_Recorded(s, overlayId, status, ok) ==
    IF ~Truthy(overlayId) THEN s
    ELSE sendVisitorEvent(s, "agent.overlayAck",
             [VisitorPayload EXCEPT !.overlayId = s.lastOverlayIdRef, !.status = status],
             ok)

sendOverlayAck(s, overlayId, status, ok) ==
    IF ~Truthy(overlayId) THEN s
    ELSE sendVisitorEvent(s, "agent.overlayAck",
             [VisitorPayload EXCEPT !.overlayId = overlayId, !.status = status], ok)

\* a replay that restores the slots and forgets the acknowledgment
replayCached_NoAck(s, ok) ==
    LET s1 == IF Len(s.menuCacheRef) > 0
              THEN [s EXCEPT !.menuItems = s.menuCacheRef] ELSE s
        s2 == IF s1.detailCacheRef.tag = "record"
              THEN [s1 EXCEPT !.propertyDetail = s1.detailCacheRef] ELSE s1
    IN  IF s2.directionsCacheRef.tag = "payload"
        THEN [s2 EXCEPT !.directions = s2.directionsCacheRef] ELSE s2

replayCached(s, ok) ==
    LET s1 == IF Len(s.menuCacheRef) > 0
              THEN [s EXCEPT !.menuItems = s.menuCacheRef] ELSE s
        s2 == IF s1.detailCacheRef.tag = "record"
              THEN [s1 EXCEPT !.propertyDetail = s1.detailCacheRef] ELSE s1
        s3 == IF s2.directionsCacheRef.tag = "payload"
              THEN [s2 EXCEPT !.directions = s2.directionsCacheRef] ELSE s2
    IN  IF Truthy(s3.lastOverlayIdRef)
        THEN sendOverlayAck(s3, s3.lastOverlayIdRef, "rendered", ok)
        ELSE s3

handleConnected(s, ok) ==
    replayCached(
        appendTimeline(s, "system", Plain("You're connected. Estate Buddy is listening.")),
        ok)

\* a menu-update that resets the highlighted item
showMenu_ResetsSelection(s, items) ==
    [s EXCEPT !.menuItems = items, !.menuCacheRef = items,
              !.selectedPropertyId = Undefined]

\* a menu-update that adds its items to the list on show
showMenu_Merge(s, items) ==
    [s EXCEPT !.menuItems = @ \o items, !.menuCacheRef = @ \o items]

\* a menu-update that shows its items and leaves the cache as it was
showMenu_NoCache(s, items) == [s EXCEPT !.menuItems = items]

\* setMenuItems(items); menuCacheRef.current = items
showMenu(s, items) == [s EXCEPT !.menuItems = items, !.menuCacheRef = items]

\* a detail that dismisses the directions card on show
showDetail_ClearsDirections(s, detailRecord) ==
    [s EXCEPT !.propertyDetail = detailRecord, !.detailCacheRef = detailRecord,
              !.directions = NullDirections, !.directionsCacheRef = NullDirections]

\* setPropertyDetail(detailRecord); detailCacheRef.current = detailRecord
showDetail(s, detailRecord) ==
    [s EXCEPT !.propertyDetail = detailRecord, !.detailCacheRef = detailRecord]

\* setDirections(payload); directionsCacheRef.current = payload
showDirections(s, payload) ==
    [s EXCEPT !.directions = payload, !.directionsCacheRef = payload]

\* setDirections(null); directionsCacheRef.current = null
clearDirections(s) ==
    [s EXCEPT !.directions = NullDirections, !.directionsCacheRef = NullDirections]

\* Array.isArray(items) ? items : []
itemsOf(value) == IF value.arr THEN value.v ELSE <<>>

ShowingText(n) ==
    Text("Showing %d property option%s on the showcase panel.",
         <<ToString(n), IF n = 1 THEN "" ELSE "s">>)

applyOverlayPayload(s, overlay, ok) ==
    LET kind == overlay.kind
        s0 == IF Truthy(overlay.overlayId)
              THEN [s EXCEPT !.lastOverlayIdRef = overlay.overlayId] ELSE s
    IN  CASE kind = "properties.menu" ->
               LET items == itemsOf(overlay.items)
                   s1 == showMenu(s0, items)
                   s2 == IF Len(items) > 0
                         THEN appendTimeline(s1, "system", ShowingText(Len(items)))
                         ELSE s1
               IN  sendOverlayAck(s2, overlay.overlayId, "rendered", ok)
          [] kind = "properties.detail" ->
               LET detailRecord == CoalesceRecord(overlay.property, overlay.item)
                   s1 == IF detailRecord.tag = "record"
                         THEN [showDetail(s0, detailRecord) EXCEPT
                                  !.selectedPropertyId =
                                      IF Truthy(detailRecord.id)
                                      THEN detailRecord.id ELSE @]
                         ELSE s0
               IN  sendOverlayAck(s1, overlay.overlayId, "rendered", ok)
          [] kind = "directions.show" ->
               LET payload == [tag |-> "payload", action |-> "show",
                               overlayId |-> overlay.overlayId,
                               locations |-> overlay.locations]
               IN  sendOverlayAck(showDirections(s0, payload), overlay.overlayId,
                                  "rendered", ok)
          [] kind = "directions.clear" ->
               sendOverlayAck(clearDirections(s0), overlay.overlayId, "cleared", ok)
          [] kind = "leads.created" ->
               LET name == Coalesce(overlay.fullName, "visitor")
                   s1 == [s0 EXCEPT !.leadStatus = "Lead captured",
                                    !.statusBanner =
                                        Text("Lead captured for %s", <<name>>)]
                   s2 == appendTimeline(s1, "system",
                                        Text("Lead captured for %s.", <<name>>))
               IN  sendOverlayAck(s2, overlay.overlayId, "rendered", ok)
          [] kind = "leads.activity" ->
               LET s1 == IF Truthy(overlay.message)
                         THEN appendTimeline(s0, "system", Plain(overlay.message))
                         ELSE s0
               IN  sendOverlayAck(s1, overlay.overlayId, "rendered", ok)
          [] OTHER -> s0

\* a typed menu that also dismisses the detail on show
propertiesMenu_DropsDetail(s, payload, ok) ==
    LET items == itemsOf(payload.items)
        s1 == [showMenu(s, items) EXCEPT !.propertyDetail = NullRecord,
                                         !.selectedPropertyId = Undefined]
    IN  IF Truthy(payload.overlayId)
        THEN sendOverlayAck([s1 EXCEPT !.lastOverlayIdRef = payload.overlayId],
                            payload.overlayId, "rendered", ok)
        ELSE s1

\* if (payload.action === 'menu') { ... }
propertiesMenu(s, payload, ok) ==
    LET items == itemsOf(payload.items)
        s1 == showMenu(s, items)
    IN  IF Truthy(payload.overlayId)
        THEN sendOverlayAck([s1 EXCEPT !.lastOverlayIdRef = payload.overlayId],
                            payload.overlayId, "rendered", ok)
        ELSE s1

\* a detail branch that a failed publish of its acknowledgment cuts short
propertiesDetail_AbortsOnFailure(s, payload, ok) ==
    LET detailRecord == payload.item
        s1 == showDetail(s, detailRecord)
        s2 == IF Truthy(payload.overlayId)
              THEN sendOverlayAck([s1 EXCEPT !.lastOverlayIdRef = payload.overlayId],
                                  payload.overlayId, "rendered", ok)
              ELSE s1
    IN  IF detailRecord.tag = "record" /\ Truthy(detailRecord.id)
           /\ (ok \/ ~Truthy(payload.overlayId))
        THEN [s2 EXCEPT !.selectedPropertyId = detailRecord.id]
        ELSE s2

\* else if (payload.action === 'detail') { ... }
propertiesDetail(s, payload, ok) ==
    LET detailRecord == payload.item
        s1 == showDetail(s, detailRecord)
        s2 == IF Truthy(payload.overlayId)
              THEN sendOverlayAck([s1 EXCEPT !.lastOverlayIdRef = payload.overlayId],
                                  payload.overlayId, "rendered", ok)
              ELSE s1
    IN  IF detailRecord.tag = "record" /\ Truthy(detailRecord.id)
        THEN [s2 EXCEPT !.selectedPropertyId = detailRecord.id]
        ELSE s2

handleClientProperties(s, payload, ok) ==
    CASE payload.action = "menu" -> propertiesMenu(s, payload, ok)
      [] payload.action = "detail" -> propertiesDetail(s, payload, ok)
      [] OTHER -> s

\* a lead-created that also dismisses the listed properties
handleClientLeads_ClearsMenu(s, payload, ok) ==
    LET s0 == IF payload.action = "created" THEN showMenu(s, <<>>) ELSE s
        s1 == IF payload.action = "created"
              THEN LET name == Coalesce(payload.fullName, "visitor")
                       a == [s0 EXCEPT !.leadStatus = "Lead captured",
                                       !.statusBanner =
                                           Text("Lead created for %s", <<name>>)]
                       b == appendTimeline(a, "system",
                                           Text("Lead captured for %s.", <<name>>))
                   IN  sendOverlayAck(b, payload.overlayId, "rendered", ok)
              ELSE s0
    IN  IF payload.action = "activity" /\ Truthy(payload.message)
        THEN sendOverlayAck(appendTimeline(s1, "system", Plain(payload.message)),
                            payload.overlayId, "rendered", ok)
        ELSE s1

handleClientLeads(s, payload, ok) ==
    LET s1 == IF payload.action = "created"
              THEN LET name == Coalesce(payload.fullName, "visitor")
                       a == [s EXCEPT !.leadStatus = "Lead captured",
                                      !.statusBanner =
                                          Text("Lead created for %s", <<name>>)]
                       b == appendTimeline(a, "system",
                                           Text("Lead captured for %s.", <<name>>))
                   IN  sendOverlayAck(b, payload.overlayId, "rendered", ok)
              ELSE s
    IN  IF payload.action = "activity" /\ Truthy(payload.message)
        THEN sendOverlayAck(appendTimeline(s1, "system", Plain(payload.message)),
                            payload.overlayId, "rendered", ok)
        ELSE s1

\* every directions envelope acknowledged as cleared
handleDirections_AlwaysCleared(s, payload, ok) ==
    IF payload.action = "clear"
    THEN sendOverlayAck(clearDirections(s), payload.overlayId, "cleared", ok)
    ELSE LET p == [tag |-> "payload", action |-> payload.action,
                   overlayId |-> payload.overlayId, locations |-> payload.locations]
         IN  sendOverlayAck(showDirections(s, p), payload.overlayId, "cleared", ok)

\* a clear acknowledged with the default outcome
handleDirections_AckRendered(s, payload, ok) ==
    IF payload.action = "clear"
    THEN sendOverlayAck(clearDirections(s), payload.overlayId, "rendered", ok)
    ELSE LET p == [tag |-> "payload", action |-> payload.action,
                   overlayId |-> payload.overlayId, locations |-> payload.locations]
         IN  sendOverlayAck(showDirections(s, p), payload.overlayId, "rendered", ok)

handleDirections(s, payload, ok) ==
    IF payload.action = "clear"
    THEN sendOverlayAck(clearDirections(s), payload.overlayId, "cleared", ok)
    ELSE LET p == [tag |-> "payload", action |-> payload.action,
                   overlayId |-> payload.overlayId, locations |-> payload.locations]
         IN  sendOverlayAck(showDirections(s, p), payload.overlayId, "rendered", ok)

\* a datagram: parse is "error" (JSON.parse throws), "null" (a falsy value) or
\* "object"; type is Undefined when message.type is not a string
handleData(s, dg, ok) ==
    IF dg.parse = "error" THEN s
    ELSE IF dg.parse = "null" \/ dg.type = Undefined THEN s
    ELSE LET data == dg.payload
         IN  CASE dg.topic = "ui.overlay" \/ dg.type = "ui.overlay" ->
                    applyOverlayPayload(s, data, ok)
               [] dg.type = "client.properties" -> handleClientProperties(s, data, ok)
               [] dg.type = "client.leads" -> handleClientLeads(s, data, ok)
               [] dg.type = "client.directions" -> handleDirections(s, data, ok)
               [] dg.type = "agent.message" ->
                    appendTimeline(s, "agent",
                        Plain(Coalesce(data.text, Coalesce(data.message, ""))))
               [] dg.type = "visitor.message" ->
                    appendTimeline(s, "visitor", Plain(Coalesce(data.text, "")))
               [] dg.type \in {"system.notice", "system.message"} ->
                    appendTimeline(s, "system", Plain(Coalesce(data.text, "")))
               [] OTHER -> s

\* a selection that is kept only when its publish went through
handleSelectProperty_OnlyWhenSent(s, propertyId, ok) ==
    sendVisitorEvent(IF ok THEN [s EXCEPT !.selectedPropertyId = propertyId] ELSE s,
                     "visitor.selectProperty",
                     [VisitorPayload EXCEPT !.propertyId = propertyId,
                                            !.overlayId = s.lastOverlayIdRef],
                     ok)

handleSelectProperty(s, propertyId, ok) ==
    sendVisitorEvent([s EXCEPT !.selectedPropertyId = propertyId],
                     "visitor.selectProperty",
                     [VisitorPayload EXCEPT !.propertyId = propertyId,
                                            !.overlayId = s.lastOverlayIdRef],
                     ok)

\* a tour request that leaves the busy flag alone
handleRequestTour_NotBusy(s, propertyId, ok) ==
    LET s1 == sendVisitorEvent(s, "visitor.requestTour",
                  [VisitorPayload EXCEPT !.propertyId = propertyId,
                                         !.overlayId = s.lastOverlayIdRef],
                  ok)
    IN  [s1 EXCEPT !.statusBanner =
            Plain("Tour requested. We will confirm availability shortly.")]

handleRequestTour(s, propertyId, ok) ==
    LET s1 == sendVisitorEvent([s EXCEPT !.ctaBusy = TRUE], "visitor.requestTour",
                  [VisitorPayload EXCEPT !.propertyId = propertyId,
                                         !.overlayId = s.lastOverlayIdRef],
                  ok)
    IN  [s1 EXCEPT !.statusBanner =
            Plain("Tour requested. We will confirm availability shortly.")]

handleRequestBrochure(s, propertyId, ok) ==
    LET s1 == sendVisitorEvent([s EXCEPT !.ctaBusy = TRUE], "visitor.requestBrochure",
                  [VisitorPayload EXCEPT !.propertyId = propertyId,
                                         !.overlayId = s.lastOverlayIdRef],
                  ok)
    IN  [s1 EXCEPT !.statusBanner = Plain("Brochure request sent to the agent.")]

\* visitorName is the component's prop
handleShareContact(s, visitorName, propertyId, ok) ==
    LET fullName == IF Truthy(visitorName) THEN visitorName ELSE "Visitor"
        s1 == sendVisitorEvent([s EXCEPT !.ctaBusy = TRUE], "visitor.shareContact",
                  [VisitorPayload EXCEPT !.fullName = fullName,
                                         !.overlayId = s.lastOverlayIdRef,
                                         !.propertyId = propertyId],
                  ok)
    IN  [s1 EXCEPT !.statusBanner = Plain("Sharing your contact with the agent...")]

----------------------------------------------------------------------------
(* The data messages the agent side can send, drawn from small sets. *)

OverlayIds == {"o1", "o2"}
PropIds == {"a", "b"}

OidOpt == {Undefined} \cup OverlayIds

Menus == {<<>>, <<"a">>, <<"b">>, <<"a", "b">>, <<"b", "a">>}

ItemsOpt == {NotArray} \cup {JsArray(m) : m \in Menus}
RecordOpt == {NoRecord} \cup {Record(p) : p \in PropIds \cup {Undefined}}
LocationsOpt == {NotArray, JsArray(<<"Marina Gate">>)}
NameOpt == {Undefined, "Ann"}
MessageOpt == {Undefined, "", "viewing booked"}

Datagram(type, topic, payload) ==
    [parse |-> "object", type |-> type, topic |-> topic, payload |-> payload]

\* the fields of the six kinds, the same in both dialects
MenuFields == {[EmptyPayload EXCEPT !.overlayId = o, !.items = i] :
                  o \in OidOpt, i \in ItemsOpt}
DetailFields == {[EmptyPayload EXCEPT !.overlayId = o, !.item = r] :
                    o \in OidOpt, r \in RecordOpt}
ShowFields == {[EmptyPayload EXCEPT !.overlayId = o, !.locations = l] :
                  o \in OidOpt, l \in LocationsOpt}
ClearFields == {[EmptyPayload EXCEPT !.overlayId = o] : o \in OidOpt}
CreatedFields == {[EmptyPayload EXCEPT !.overlayId = o, !.fullName = n] :
                     o \in OidOpt, n \in NameOpt}
ActivityFields == {[EmptyPayload EXCEPT !.overlayId = o, !.message = m] :
                      o \in OidOpt, m \in MessageOpt}

Kinds == {"menu-update", "detail-update", "directions-show", "directions-clear",
          "lead-created", "lead-activity"}

FieldsOf(k) ==
    CASE k = "menu-update" -> MenuFields
      [] k = "detail-update" -> DetailFields
      [] k = "directions-show" -> ShowFields
      [] k = "directions-clear" -> ClearFields
      [] k = "lead-created" -> CreatedFields
      [] k = "lead-activity" -> ActivityFields

LegacyKind(k) ==
    CASE k = "menu-update" -> "properties.menu"
      [] k = "detail-update" -> "properties.detail"
      [] k = "directions-show" -> "directions.show"
      [] k = "directions-clear" -> "directions.clear"
      [] k = "lead-created" -> "leads.created"
      [] k = "lead-activity" -> "leads.activity"

TypedType(k) ==
    CASE k \in {"menu-update", "detail-update"} -> "client.properties"
      [] k \in {"directions-show", "directions-clear"} -> "client.directions"
      [] k \in {"lead-created", "lead-activity"} -> "client.leads"

TypedAction(k) ==
    CASE k = "menu-update" -> "menu"
      [] k = "detail-update" -> "detail"
      [] k = "directions-show" -> "show"
      [] k = "directions-clear" -> "clear"
      [] k = "lead-created" -> "created"
      [] k = "lead-activity" -> "activity"

\* { type: "ui.overlay", payload: { kind, overlayId?, ... } } on the generic channel
Legacy(k, f) == Datagram("ui.overlay", "ui.overlay", [f EXCEPT !.kind = LegacyKind(k)])
\* { type: "client.*", payload: { action, ... } } on the channel named after type
Typed(k, f) == Datagram(TypedType(k), TypedType(k), [f EXCEPT !.action = TypedAction(k)])

Envelopes ==
    UNION {{Legacy(k, f) : f \in FieldsOf(k)} \cup {Typed(k, f) : f \in FieldsOf(k)} :
              k \in Kinds}

\* a legacy detail-update may name its record property instead of item
PropertyDetailEnvelopes ==
    {Legacy("detail-update", [f EXCEPT !.property = Record("b")]) : f \in DetailFields}

\* the data messages delivered in the sessions explored: every kind in both
\* dialects, with and without an overlayId, among them the messages of the
\* end-to-end scenario (a menu of two items as o1, then the detail of a as o2)
InboundFields(k) ==
    CASE k = "menu-update" ->
            {[EmptyPayload EXCEPT !.overlayId = "o1", !.items = JsArray(<<"a", "b">>)],
             [EmptyPayload EXCEPT !.items = JsArray(<<"b">>)],
             [EmptyPayload EXCEPT !.overlayId = "o2", !.items = JsArray(<<>>)]}
      [] k = "detail-update" ->
            {[EmptyPayload EXCEPT !.overlayId = "o2", !.item = Record("a")],
             EmptyPayload}
      [] k = "directions-show" ->
            {[EmptyPayload EXCEPT !.overlayId = "o1",
                                  !.locations = JsArray(<<"Marina Gate">>)]}
      [] k = "directions-clear" ->
            {[EmptyPayload EXCEPT !.overlayId = "o2"], EmptyPayload}
      [] k = "lead-created" ->
            {[EmptyPayload EXCEPT !.overlayId = "o1", !.fullName = "Ann"],
             EmptyPayload}
      [] k = "lead-activity" ->
            {[EmptyPayload EXCEPT !.overlayId = "o2", !.message = "viewing booked"],
             [EmptyPayload EXCEPT !.overlayId = "o1", !.message = ""]}

Inbound ==
    UNION {{Legacy(k, f) : f \in InboundFields(k)}
           \cup {Typed(k, f) : f \in InboundFields(k)} : k \in Kinds}
    \cup {Legacy("detail-update",
                 [EmptyPayload EXCEPT !.property = Record("b"), !.item = Record("a")]),
          Datagram("ui.overlay", "ui.overlay",
                   [EmptyPayload EXCEPT !.kind = "bogus", !.overlayId = "o1"]),
          Datagram("agent.message", "agent.message",
                   [EmptyPayload EXCEPT !.text = "hello"]),
          Datagram("foo", Undefined, EmptyPayload)}

NoDatagram == Datagram(Undefined, Undefined, EmptyPayload)

\* the data messages of the sessions followed with their clicks, timers and
\* failed publishes: the end-to-end scenario and a lead
SessionInbound ==
    {Legacy("menu-update",
            [EmptyPayload EXCEPT !.overlayId = "o1", !.items = JsArray(<<"a", "b">>)]),
     Typed("detail-update",
           [EmptyPayload EXCEPT !.overlayId = "o2", !.item = Record("a")]),
     Typed("lead-created", [EmptyPayload EXCEPT !.fullName = "Ann"])}

\* the propertyId a call-to-action button passes, and the visitorName prop
CtaProps == {Undefined, "a"}
VisitorNames == {"", "Sam"}

----------------------------------------------------------------------------
(* What the wire shapes of the protocol make of a datagram. *)

IsLegacy(dg) ==
    /\ dg.parse = "object"
    /\ dg.type = "ui.overlay"
    /\ \E k \in Kinds : dg.payload.kind = LegacyKind(k)

IsTyped(dg) ==
    /\ dg.parse = "object"
    /\ dg.topic = dg.type
    /\ \E k \in Kinds : dg.type = TypedType(k) /\ dg.payload.action = TypedAction(k)

IsEnvelope(dg) == IsLegacy(dg) \/ IsTyped(dg)

KindOf(dg) ==
    IF IsLegacy(dg) THEN CHOOSE k \in Kinds : dg.payload.kind = LegacyKind(k)
    ELSE IF IsTyped(dg)
    THEN CHOOSE k \in Kinds : dg.type = TypedType(k) /\ dg.payload.action = TypedAction(k)
    ELSE "none"

DialectOf(dg) ==
    IF IsLegacy(dg) THEN "legacy" ELSE IF IsTyped(dg) THEN "typed" ELSE "none"

\* a datagram of one of the overlay types or on the overlay channel
IsOverlayDatagram(dg) ==
    /\ dg.parse = "object"
    /\ \/ dg.topic = "ui.overlay"
       \/ dg.type \in {"ui.overlay", "client.properties", "client.leads",
                       "client.directions"}

----------------------------------------------------------------------------
(* The state machine. *)

Event(ev, dg, arg) == [ev |-> ev, dg |-> dg, arg |-> arg]

NoMenu == [applied |-> FALSE, items |-> NotArray]

Init ==
    /\ timeline = <<>>
    /\ menuItems = <<>>
    /\ selectedPropertyId = Undefined
    /\ propertyDetail = NullRecord
    /\ leadStatus = Null
    /\ directions = NullDirections
    /\ statusBanner = Text("%s", <<Null>>)
    /\ lastOverlayIdRef = Undefined
    /\ menuCacheRef = <<>>
    /\ detailCacheRef = NullRecord
    /\ directionsCacheRef = NullDirections
    /\ outbox = <<>>
    /\ transport = "new"
    /\ lastEvent = Event("mount", NoDatagram, Undefined)
    /\ lastMenu = NoMenu
    /\ ackRecord = [overlayId |-> Undefined, outcome |-> Undefined]
    /\ recent = <<>>
    /\ received = 0
    /\ ctaBusy = FALSE
    /\ ctaTimers = 0
    /\ connects = 0
    /\ notices = <<>>

\* the handler's result becomes the component's state
Commit(r) ==
    /\ timeline' = r.timeline
    /\ menuItems' = r.menuItems
    /\ selectedPropertyId' = r.selectedPropertyId
    /\ propertyDetail' = r.propertyDetail
    /\ leadStatus' = r.leadStatus
    /\ directions' = r.directions
    /\ statusBanner' = r.statusBanner
    /\ lastOverlayIdRef' = r.lastOverlayIdRef
    /\ menuCacheRef' = r.menuCacheRef
    /\ detailCacheRef' = r.detailCacheRef
    /\ directionsCacheRef' = r.directionsCacheRef
    /\ ctaBusy' = r.ctaBusy
    /\ outbox' = r.outbox

\* RoomEvent.Connected
Connected ==
    /\ transport = "new"
    /\ Commit(handleConnected(State, TRUE))
    /\ transport' = "up"
    /\ lastEvent' = Event("connected", NoDatagram, Undefined)
    /\ UNCHANGED <<lastMenu, ackRecord, recent, received, ctaTimers, connects, notices>>

\* the connection drops; no callback of the component runs
Drop ==
    /\ transport = "up"
    /\ transport' = "down"
    /\ Commit(State)
    /\ lastEvent' = Event("drop", NoDatagram, Undefined)
    /\ UNCHANGED <<lastMenu, ackRecord, recent, received, ctaTimers, connects, notices>>

\* RoomEvent.Reconnected
Reconnected ==
    /\ transport = "down"
    /\ Commit(replayCached(State, TRUE))
    /\ transport' = "up"
    /\ lastEvent' = Event("reconnected", NoDatagram, Undefined)
    /\ UNCHANGED <<lastMenu, ackRecord, recent, received, ctaTimers, connects, notices>>

Last2(q) == IF Len(q) > 2 THEN SubSeq(q, Len(q) - 1, Len(q)) ELSE q

\* RoomEvent.DataReceived
DataReceived ==
    /\ transport = "up"
    /\ received < MaxReceived
    /\ received' = received + 1
    /\ \E dg \in Inbound :
          /\ Commit(handleData(State, dg, TRUE))
          /\ lastEvent' = Event("data", dg, Undefined)
          /\ lastMenu' = IF IsEnvelope(dg) /\ KindOf(dg) = "menu-update"
                         THEN [applied |-> TRUE, items |-> dg.payload.items]
                         ELSE lastMenu
          /\ ackRecord' = IF IsEnvelope(dg) /\ Truthy(dg.payload.overlayId)
                          THEN [overlayId |-> dg.payload.overlayId,
                                outcome |-> IF KindOf(dg) = "directions-clear"
                                            THEN "cleared" ELSE "rendered"]
                          ELSE ackRecord
          /\ recent' = IF IsOverlayDatagram(dg)
                       THEN Last2(Append(recent, [kind |-> KindOf(dg),
                                                  dialect |-> DialectOf(dg),
                                                  overlayId |-> dg.payload.overlayId]))
                       ELSE recent
    /\ UNCHANGED <<transport, ctaTimers, connects, notices>>

\* a click on a listed property
SelectProperty ==
    /\ \E i \in 1..Len(menuItems) :
          /\ Commit(handleSelectProperty(State, menuItems[i], transport = "up"))
          /\ lastEvent' = Event("select", NoDatagram, menuItems[i])
    /\ UNCHANGED <<transport, lastMenu, ackRecord, recent, received, ctaTimers, connects, notices>>

\* the 4500 ms timer of the status banner
BannerTimeout ==
    /\ TruthyText(statusBanner)
    /\ Commit([State EXCEPT !.statusBanner = Text("%s", <<Null>>)])
    /\ lastEvent' = Event("bannerTimeout", NoDatagram, Undefined)
    /\ UNCHANGED <<transport, lastMenu, ackRecord, recent, received, ctaTimers, connects, notices>>

Next ==
    \/ Connected
    \/ Drop
    \/ Reconnected
    \/ DataReceived
    \/ SelectProperty
    \/ BannerTimeout

Spec == Init /\ [][Next]_vars

----------------------------------------------------------------------------
(* The session with the visitor's calls to action, publishes that fail and  *)
(* a room that connects anew after a drop.                                   *)

\* RoomEvent.Connected, emitted again when the dropped room is connected anew
ConnectedAgain ==
    /\ transport = "down"
    /\ connects < MaxConnects
    /\ connects' = connects + 1
    /\ Commit(handleConnected(State, TRUE))
    /\ transport' = "up"
    /\ lastEvent' = Event("connected", NoDatagram, Undefined)
    /\ UNCHANGED <<lastMenu, ackRecord, recent, received, ctaTimers, notices>>

\* RoomEvent.DataReceived; the publish of the acknowledgment may fail
DataReceivedLossy ==
    /\ transport = "up"
    /\ received < MaxReceived
    /\ received' = received + 1
    /\ \E dg \in SessionInbound, ok \in BOOLEAN :
          /\ Commit(handleData(State, dg, ok))
          /\ lastEvent' = Event("data", dg, Undefined)
          /\ lastMenu' = IF IsEnvelope(dg) /\ KindOf(dg) = "menu-update"
                         THEN [applied |-> TRUE, items |-> dg.payload.items]
                         ELSE lastMenu
          /\ ackRecord' = IF IsEnvelope(dg) /\ Truthy(dg.payload.overlayId)
                          THEN [overlayId |-> dg.payload.overlayId,
                                outcome |-> IF KindOf(dg) = "directions-clear"
                                            THEN "cleared" ELSE "rendered"]
                          ELSE ackRecord
          /\ recent' = IF IsOverlayDatagram(dg)
                       THEN Last2(Append(recent, [kind |-> KindOf(dg),
                                                  dialect |-> DialectOf(dg),
                                                  overlayId |-> dg.payload.overlayId]))
                       ELSE recent
    /\ UNCHANGED <<transport, ctaTimers, connects, notices>>

\* a click on Request a tour
RequestTour ==
    /\ ctaTimers < MaxPending
    /\ ctaTimers' = ctaTimers + 1
    /\ \E propertyId \in CtaProps :
          /\ Commit(handleRequestTour(State, propertyId, transport = "up"))
          /\ lastEvent' = Event("tour", NoDatagram, propertyId)
    /\ UNCHANGED <<transport, lastMenu, ackRecord, recent, received, connects, notices>>

\* a click on Request a brochure
RequestBrochure ==
    /\ ctaTimers < MaxPending
    /\ ctaTimers' = ctaTimers + 1
    /\ \E propertyId \in CtaProps :
          /\ Commit(handleRequestBrochure(State, propertyId, transport = "up"))
          /\ lastEvent' = Event("brochure", NoDatagram, propertyId)
    /\ UNCHANGED <<transport, lastMenu, ackRecord, recent, received, connects, notices>>

\* a click on Share my contact
ShareContact ==
    /\ ctaTimers < MaxPending
    /\ ctaTimers' = ctaTimers + 1
    /\ \E propertyId \in CtaProps, visitorName \in VisitorNames :
          /\ Commit(handleShareContact(State, visitorName, propertyId,
                                       transport = "up"))
          /\ lastEvent' = Event("contact", NoDatagram, propertyId)
    /\ UNCHANGED <<transport, lastMenu, ackRecord, recent, received, connects, notices>>

\* a 1200 ms timer of a call to action expires
CtaTimeout ==
    /\ ctaTimers > 0
    /\ ctaTimers' = ctaTimers - 1
    /\ Commit([State EXCEPT !.ctaBusy = FALSE])
    /\ lastEvent' = Event("ctaTimeout", NoDatagram, Undefined)
    /\ UNCHANGED <<transport, lastMenu, ackRecord, recent, received, connects, notices>>

SessionNext ==
    \/ Connected
    \/ ConnectedAgain
    \/ Drop
    \/ Reconnected
    \/ DataReceivedLossy
    \/ SelectProperty
    \/ RequestTour
    \/ RequestBrochure
    \/ ShareContact
    \/ CtaTimeout
    \/ BannerTimeout

SessionSpec == Init /\ [][SessionNext]_vars

----------------------------------------------------------------------------
(* A long conversation: more messages than the timeline keeps.              *)

NoticeTypes == <<"agent.message", "visitor.message", "system.notice", "system.message">>

\* the role appendTimeline is called with for a message of type ty
RoleOf(ty) ==
    CASE ty = "agent.message" -> "agent"
      [] ty = "visitor.message" -> "visitor"
      [] OTHER -> "system"

\* RoomEvent.DataReceived for the next message of the conversation: the
\* types take turns, the text is the number of the message among those that
\* have one, or it is empty or missing
NoticeReceived ==
    /\ transport = "up"
    /\ received < MaxNotices
    /\ received' = received + 1
    /\ \E x \in {ToString(Len(notices) + 1), "", Undefined} :
          LET ty == NoticeTypes[(Len(notices) % 4) + 1]
              dg == Datagram(ty, ty, [EmptyPayload EXCEPT !.text = x])
          IN  /\ Commit(handleData(State, dg, TRUE))
              /\ lastEvent' = Event("data", dg, Undefined)
              /\ notices' = IF Truthy(x)
                            THEN Append(notices, [role |-> RoleOf(ty), text |-> Plain(x)])
                            ELSE notices
    /\ UNCHANGED <<transport, lastMenu, ackRecord, recent, ctaTimers, connects>>

NoticeNext ==
    \/ Connected
    \/ Drop
    \/ Reconnected
    \/ NoticeReceived

NoticeSpec == Init /\ [][NoticeNext]_vars

----------------------------------------------------------------------------
\* the call-to-action buttons and their timers, with the connection coming and going
CtaNext ==
    \/ Connected
    \/ ConnectedAgain
    \/ Drop
    \/ Reconnected
    \/ RequestTour
    \/ RequestBrochure
    \/ ShareContact
    \/ CtaTimeout
    \/ BannerTimeout

\* the timers the component starts with setTimeout fire once they are due
CtaSpec ==
    /\ Init
    /\ [][CtaNext]_vars
    /\ WF_vars(CtaTimeout)
    /\ WF_vars(BannerTimeout)

----------------------------------------------------------------------------
(* What the claims are stated with. *)

LastDg == lastEvent.dg
LastOid == LastDg.payload.overlayId

\* the handler that ran last applied an envelope of kind k
Applied(k) == lastEvent.ev = "data" /\ IsEnvelope(LastDg) /\ KindOf(LastDg) = k

\* the component's state after dg is delivered now
Result(dg) == handleData(State, dg, TRUE)

Ack(overlayId, status) ==
    [type |-> "agent.overlayAck",
     payload |-> [VisitorPayload EXCEPT !.overlayId = overlayId, !.status = status],
     topic |-> "agent.overlayAck", reliable |-> TRUE, ok |-> TRUE]

IsAck(m) == m.type = "agent.overlayAck"
Acks(box) == SelectSeq(box, IsAck)

\* the last two overlay datagrams were of kinds k1 and then k2
Sequence(k1, k2) ==
    Len(recent) = 2 /\ recent[1].kind = k1 /\ recent[2].kind = k2

----------------------------------------------------------------------------
(* C1: after menu-update envelopes in any mix of dialects, menuItems is     *)
(* exactly the item list of the last menu-update applied, with nothing of   *)
(* an earlier list kept; and delivering a menu-update in any reachable      *)
(* state leaves menuItems equal to its item list.                           *)
C1_MenuItemsAreLastMenu ==
    /\ lastMenu.applied /\ lastMenu.items.arr => menuItems = lastMenu.items.v
    /\ transport = "up" =>
          \A f \in MenuFields :
              f.items.arr =>
                  /\ Result(Legacy("menu-update", f)).menuItems = f.items.v
                  /\ Result(Typed("menu-update", f)).menuItems = f.items.v

\* a menu of a and b, then in the other dialect a menu of b alone
C1_Witness ==
    /\ Sequence("menu-update", "menu-update")
    /\ recent[1].dialect # recent[2].dialect
    /\ recent[1].overlayId = "o1"
    /\ Applied("menu-update")
    /\ lastMenu.items = JsArray(<<"b">>)
    /\ menuItems = <<"b">>

C2_ScenarioOid ==
    IF Truthy(recent[2].overlayId) THEN recent[2].overlayId ELSE recent[1].overlayId

(* C2: after a menu-update and then a detail-update, the reconnected signal *)
(* leaves menuItems and propertyDetail equal to the cached menu and detail  *)
(* (the menu is that of the menu-update) and publishes one agent.overlayAck *)
(* for the overlayId those envelopes carried last.                          *)
C2_ReconnectReplays ==
    lastEvent.ev = "reconnected" /\ Sequence("menu-update", "detail-update") =>
        /\ menuItems = menuCacheRef
        /\ menuItems = itemsOf(lastMenu.items)
        /\ propertyDetail = detailCacheRef
        /\ Truthy(C2_ScenarioOid) => outbox = <<Ack(C2_ScenarioOid, "rendered")>>

C2_Witness ==
    /\ lastEvent.ev = "reconnected"
    /\ Sequence("menu-update", "detail-update")
    /\ recent[1].overlayId = "o1" /\ recent[2].overlayId = "o2"
    /\ menuItems = <<"a", "b">>
    /\ propertyDetail = Record("a")
    /\ outbox = <<Ack("o2", "rendered")>>

(* C3: applying an envelope of one of the six kinds, in either dialect,     *)
(* that carries an overlayId publishes exactly one agent.overlayAck, and it  *)
(* carries that overlayId.                                                   *)
C3_OneAckPerEnvelope ==
    lastEvent.ev = "data" /\ IsEnvelope(LastDg) /\ Truthy(LastOid) =>
        /\ Len(Acks(outbox)) = 1
        /\ Acks(outbox)[1].payload.overlayId = LastOid

C4_EnvelopesWithoutId ==
    {dg \in Envelopes \cup PropertyDetailEnvelopes : ~Truthy(dg.payload.overlayId)}

(* C4: applying an envelope that carries no overlayId publishes no          *)
(* agent.overlayAck, whatever its kind and dialect: so for the envelope the  *)
(* last handler applied, and so for every envelope delivered in a reachable  *)
(* state.                                                                    *)
C4_NoAckWithoutOverlayId ==
    /\ lastEvent.ev = "data" /\ IsEnvelope(LastDg) /\ ~Truthy(LastOid) =>
          Acks(outbox) = <<>>
    /\ transport = "up" =>
          \A dg \in C4_EnvelopesWithoutId : Acks(Result(dg).outbox) = <<>>

\* a legacy lead-created without an overlayId was applied and nothing was published
C4_Witness ==
    /\ Applied("lead-created")
    /\ IsLegacy(LastDg)
    /\ ~Truthy(LastOid)
    /\ leadStatus = "Lead captured"
    /\ outbox = <<>>

C5_AfterShow(r, f) ==
    /\ r.directions.tag = "payload"
    /\ r.directions.locations = f.locations
    /\ Truthy(f.overlayId) => r.outbox = <<Ack(f.overlayId, "rendered")>>

C5_AfterClear(r, f) ==
    /\ r.directions = NullDirections
    /\ Truthy(f.overlayId) => r.outbox = <<Ack(f.overlayId, "cleared")>>

(* C5: directions-clear leaves directions absent and its acknowledgment has *)
(* the outcome cleared; directions-show shows the envelope's locations and   *)
(* its acknowledgment has the outcome rendered.  Both hold in both dialects, *)
(* for the envelope applied last and for every show or clear delivered in a  *)
(* reachable state.                                                          *)
C5_ClearAcksCleared ==
    /\ Applied("directions-show") =>
          C5_AfterShow([State EXCEPT !.outbox = outbox], LastDg.payload)
    /\ Applied("directions-clear") =>
          C5_AfterClear([State EXCEPT !.outbox = outbox], LastDg.payload)
    /\ transport = "up" =>
          /\ \A f \in ShowFields :
                /\ C5_AfterShow(Result(Legacy("directions-show", f)), f)
                /\ C5_AfterShow(Result(Typed("directions-show", f)), f)
          /\ \A f \in ClearFields :
                /\ C5_AfterClear(Result(Legacy("directions-clear", f)), f)
                /\ C5_AfterClear(Result(Typed("directions-clear", f)), f)

\* directions-show as o1, then directions-clear as o2
C5_Witness ==
    /\ Sequence("directions-show", "directions-clear")
    /\ recent[1].overlayId = "o1"
    /\ Applied("directions-clear")
    /\ directions = NullDirections
    /\ outbox = <<Ack("o2", "cleared")>>

Overlay(r) ==
    <<r.menuItems, r.propertyDetail, r.directions, r.leadStatus, r.selectedPropertyId>>

(* C6: from the same state, the legacy menu-update and the typed            *)
(* menu-update with the same items and overlayId give the same overlay state *)
(* (menuItems, detail, directions, leadStatus, selectedId).                  *)
C6_MenuDialectsAgree ==
    transport = "up" =>
        \A f \in MenuFields :
            Overlay(Result(Legacy("menu-update", f))) =
                Overlay(Result(Typed("menu-update", f)))

\* the same menu-update was applied in the legacy and then in the typed dialect
C6_Witness ==
    /\ Applied("menu-update")
    /\ Sequence("menu-update", "menu-update")
    /\ recent[1] = [kind |-> "menu-update", dialect |-> "legacy", overlayId |-> "o1"]
    /\ recent[2] = [kind |-> "menu-update", dialect |-> "typed", overlayId |-> "o1"]
    /\ menuItems = <<"a", "b">>
    /\ menuCacheRef = <<"a", "b">>
    /\ lastOverlayIdRef = "o1"

Observable(r) ==
    <<Overlay(r), r.menuCacheRef, r.detailCacheRef, r.directionsCacheRef,
      r.lastOverlayIdRef, Acks(r.outbox), r.timeline>>

(* C7: for each of the six kinds, the legacy envelope and the typed         *)
(* envelope with the same fields, applied to the same state, give the same   *)
(* overlay state, Cache Snapshot, recorded overlayId, published              *)
(* acknowledgments and timeline.                                             *)
C7_DialectsAgree ==
    transport = "up" =>
        \A k \in Kinds :
            \A f \in FieldsOf(k) :
                Observable(Result(Legacy(k, f))) = Observable(Result(Typed(k, f)))

(* C8: the acknowledgment published on reconnect carries the overlayId and  *)
(* the outcome of the last acknowledged envelope: cleared when that was a    *)
(* directions-clear.  Stated where the recorded overlayId is that            *)
(* envelope's.                                                               *)
C8_ReplayedAckCarriesOutcome ==
    /\ lastEvent.ev = "reconnected"
    /\ Truthy(ackRecord.overlayId)
    /\ lastOverlayIdRef = ackRecord.overlayId
    => outbox = <<Ack(ackRecord.overlayId, ackRecord.outcome)>>

(* C9: once an envelope that carries an overlayId is applied, whatever its  *)
(* kind and dialect, the recorded overlayId (re-acknowledged on reconnect    *)
(* and attached to visitor intents) is that overlayId.                       *)
C9_RecordHoldsLastOverlayId ==
    lastEvent.ev = "data" /\ IsEnvelope(LastDg) /\ Truthy(LastOid) =>
        lastOverlayIdRef = LastOid

C10_Frame(r) ==
    /\ r.propertyDetail = propertyDetail
    /\ r.selectedPropertyId = selectedPropertyId
    /\ r.directions = directions
    /\ r.leadStatus = leadStatus

(* C10: a menu-update, in either dialect, delivered in any reachable state  *)
(* leaves propertyDetail, selectedPropertyId, directions and leadStatus as   *)
(* they were.                                                                *)
C10_MenuTouchesOnlyMenu ==
    transport = "up" =>
        \A f \in MenuFields :
            /\ C10_Frame(Result(Legacy("menu-update", f)))
            /\ C10_Frame(Result(Typed("menu-update", f)))

\* the detail of a, then a menu-update: the detail and the selection are still a's
C10_Witness ==
    /\ Sequence("detail-update", "menu-update")
    /\ Applied("menu-update")
    /\ propertyDetail = Record("a")
    /\ selectedPropertyId = "a"
    /\ menuItems = <<"b">>

Cache(r) == <<r.menuCacheRef, r.detailCacheRef, r.directionsCacheRef>>

C11_Menus == {f \in MenuFields : f.overlayId = "o1"}

\* dg applied once, and applied again to the state that leaves
C11_Twice(dg) ==
    LET once == Result(dg)
        twice == handleData([once EXCEPT !.outbox = <<>>], dg, TRUE)
    IN  /\ Overlay(twice) = Overlay(once)
        /\ Cache(twice) = Cache(once)
        /\ twice.lastOverlayIdRef = once.lastOverlayIdRef
        /\ once.outbox = <<Ack(dg.payload.overlayId, "rendered")>>
        /\ twice.outbox = <<Ack(dg.payload.overlayId, "rendered")>>

(* C11: a menu-update that carries an overlayId, applied twice in a row in  *)
(* any reachable state, leaves the overlay state, the Cache Snapshot and the *)
(* recorded overlayId as one application leaves them, and each of the two    *)
(* applications publishes one agent.overlayAck with that overlayId.          *)
C11_MenuUpdateIdempotent ==
    transport = "up" =>
        \A f \in C11_Menus :
            /\ C11_Twice(Legacy("menu-update", f))
            /\ C11_Twice(Typed("menu-update", f))

\* the menu of a and b was applied as o1 twice in a row in the legacy dialect
C11_Witness ==
    /\ Applied("menu-update")
    /\ Sequence("menu-update", "menu-update")
    /\ recent[1] = [kind |-> "menu-update", dialect |-> "legacy", overlayId |-> "o1"]
    /\ recent[2] = recent[1]
    /\ LastDg.payload.items = JsArray(<<"a", "b">>)
    /\ menuItems = <<"a", "b">>
    /\ menuCacheRef = <<"a", "b">>
    /\ outbox = <<Ack("o1", "rendered")>>

\* datagrams of neither dialect: bytes that are not JSON, null, objects whose
\* type is not a string ({"foo":"bar"}), and objects of a type that is none of
\* ui.overlay, client.properties, client.leads, client.directions
C12_Payloads ==
    {EmptyPayload,
     [EmptyPayload EXCEPT !.kind = "properties.menu", !.overlayId = "o1",
                          !.items = JsArray(<<"b">>)],
     [EmptyPayload EXCEPT !.action = "detail", !.overlayId = "o2",
                          !.item = Record("b")]}

C12_Foreign ==
    {[parse |-> p, type |-> ty, topic |-> tp, payload |-> f] :
        p \in {"error", "null"}, ty \in {Undefined}, tp \in {Undefined, "ui.overlay", "foo"},
        f \in {EmptyPayload}}
    \cup {Datagram(Undefined, tp, f) :
             tp \in {Undefined, "ui.overlay", "client.properties"}, f \in C12_Payloads}
    \cup {Datagram("foo", tp, f) :
             tp \in {Undefined, "ui.overlay", "foo"}, f \in C12_Payloads}

C12_Kept(r) ==
    /\ Overlay(r) = Overlay(State)
    /\ Cache(r) = Cache(State)
    /\ r.lastOverlayIdRef = lastOverlayIdRef
    /\ r.outbox = <<>>

(* C12: a datagram that is not JSON, or whose decoded value has the shape   *)
(* of neither dialect, delivered in any reachable state, changes nothing of  *)
(* the overlay state, the Cache Snapshot and the recorded overlayId and      *)
(* publishes nothing, and the datagram delivered after it is applied as it   *)
(* would have been without it.                                               *)
C12_ForeignDropped ==
    transport = "up" =>
        \A dg \in C12_Foreign :
            /\ C12_Kept(Result(dg))
            /\ \A next \in Inbound :
                  handleData([Result(dg) EXCEPT !.outbox = <<>>], next, TRUE)
                      = Result(next)

C13_Kinds == {"menu-update", "detail-update", "directions-show"}

(* C13: a menu-update, detail-update or directions-show that carries no     *)
(* overlayId, in either dialect, delivered in any reachable state, leaves    *)
(* the three slots of the Cache Snapshot as they were.                       *)
C13_NoIdNotCached ==
    transport = "up" =>
        \A k \in C13_Kinds :
            \A f \in FieldsOf(k) :
                ~Truthy(f.overlayId) =>
                    /\ Cache(Result(Legacy(k, f))) = Cache(State)
                    /\ Cache(Result(Typed(k, f))) = Cache(State)

(* C14: once the menu slot of the Cache Snapshot holds a list of items, or  *)
(* the detail slot a record, no step (an inbound message, connect,           *)
(* reconnect, a click, a timer) leaves that slot empty or absent.            *)
C14_CacheSlotsKept ==
    [][/\ Len(menuCacheRef) > 0 => Len(menuCacheRef') > 0
       /\ detailCacheRef.tag = "record" => detailCacheRef'.tag = "record"]_vars

C15_SameDetail(x, y) == x = y \/ (x.tag # "record" /\ y.tag # "record")

C15_Kept(r) ==
    /\ C15_SameDetail(r.propertyDetail, propertyDetail)
    /\ C15_SameDetail(r.detailCacheRef, detailCacheRef)
    /\ r.selectedPropertyId = selectedPropertyId

(* C15: a detail-update that carries no record, in either dialect,          *)
(* delivered in any reachable state, leaves propertyDetail, the cached       *)
(* detail and selectedPropertyId as they were (an absent detail stays        *)
(* absent, a shown record stays shown).                                      *)
C15_DetailWithoutRecord ==
    transport = "up" =>
        \A f \in DetailFields :
            f.item = NoRecord =>
                /\ C15_Kept(Result(Legacy("detail-update", f)))
                /\ C15_Kept(Result(Typed("detail-update", f)))

C16_Leads ==
    UNION {{Legacy(k, f) : f \in FieldsOf(k)} \cup {Typed(k, f) : f \in FieldsOf(k)} :
              k \in {"lead-created", "lead-activity"}}

C16_Frame(r) ==
    /\ r.menuItems = menuItems
    /\ r.propertyDetail = propertyDetail
    /\ r.directions = directions
    /\ r.selectedPropertyId = selectedPropertyId
    /\ Cache(r) = Cache(State)

(* C16: a lead-created or lead-activity, in either dialect, delivered in    *)
(* any reachable state, leaves menuItems, propertyDetail, directions,        *)
(* selectedPropertyId and the three slots of the Cache Snapshot as they      *)
(* were.                                                                     *)
C16_LeadsTouchNoSlot ==
    transport = "up" => \A dg \in C16_Leads : C16_Frame(Result(dg))

\* a menu of a and b, then a typed lead-created: the menu and its cache are kept
C16_Witness ==
    /\ Sequence("menu-update", "lead-created")
    /\ Applied("lead-created")
    /\ IsTyped(LastDg)
    /\ leadStatus = "Lead captured"
    /\ menuItems = <<"a", "b">>
    /\ menuCacheRef = <<"a", "b">>

C20_NoCleared(box) == \A i \in 1..Len(box) : box[i].payload.status # "cleared"

C20_IsClear(dg) == IsEnvelope(dg) /\ KindOf(dg) = "directions-clear"

\* the messages that carry an overlayId and are not a directions-clear
C20_OtherDatagrams ==
    {dg \in Inbound : Truthy(dg.payload.overlayId) /\ ~C20_IsClear(dg)}

(* C20: an agent.overlayAck with the outcome cleared is published only by   *)
(* the application of a directions-clear: the handler that ran last          *)
(* published one only if it applied a directions-clear, and in any reachable *)
(* state no envelope of another kind that carries an overlayId, no connect   *)
(* and no reconnect publishes one.                                           *)
C20_ClearedOnlyFromClear ==
    /\ ~C20_NoCleared(outbox) => Applied("directions-clear")
    /\ C20_NoCleared(replayCached(State, TRUE).outbox)
    /\ C20_NoCleared(handleConnected(State, TRUE).outbox)
    /\ transport = "up" =>
          \A dg \in C20_OtherDatagrams : C20_NoCleared(Result(dg).outbox)

\* a legacy directions-clear as o2, after the directions were shown, was
\* acknowledged as cleared
C20_Witness ==
    /\ Applied("directions-clear")
    /\ IsLegacy(LastDg)
    /\ Sequence("directions-show", "directions-clear")
    /\ directionsCacheRef = NullDirections
    /\ Len(outbox) = 1
    /\ outbox[1].payload.status = "cleared"
    /\ outbox[1].payload.overlayId = "o2"

C17_Actions == {"select", "tour", "brochure", "contact"}

C17_TypeOf(ev) ==
    CASE ev = "select" -> "visitor.selectProperty"
      [] ev = "tour" -> "visitor.requestTour"
      [] ev = "brochure" -> "visitor.requestBrochure"
      [] ev = "contact" -> "visitor.shareContact"

C17_OnOwnChannel(m) == m.topic = m.type /\ m.reliable

C18_Slots == <<menuItems, propertyDetail, directions>>

(* C18: handling the connected signal leaves menuItems, propertyDetail and  *)
(* directions as they were and publishes no acknowledgment.                  *)
C18_ConnectedDoesNotReplay ==
    [][transport # "up" /\ transport' = "up" /\ lastEvent'.ev = "connected" =>
          /\ C18_Slots' = C18_Slots
          /\ Acks(outbox') = <<>>]_vars

\* everything a handler leaves but the fate of its publishes
C19_Committed(r) == [r EXCEPT !.outbox = [i \in 1..Len(r.outbox) |->
                                            [r.outbox[i] EXCEPT !.ok = TRUE]]]

\* every kind in both dialects with an overlayId, and the session's messages
C19_Datagrams == {dg \in Inbound : Truthy(dg.payload.overlayId)} \cup SessionInbound

C19_Failed(box) == Len(box) > 0 /\ \A i \in 1..Len(box) : ~box[i].ok

(* C19: a publish that fails changes nothing else.  In any reachable state  *)
(* an envelope applied while the publish fails leaves the state, the cache   *)
(* and the recorded overlayId that it leaves when the publish succeeds, and  *)
(* so does each visitor action (the selection, the busy flag and the banner  *)
(* are set); and what failed is not attempted again: connect and reconnect   *)
(* publish at most the acknowledgment of the recorded overlayId.             *)
C19_FailedPublishSwallowed ==
    /\ transport = "up" =>
          \A dg \in C19_Datagrams :
              /\ C19_Committed(handleData(State, dg, FALSE)) = Result(dg)
              /\ Result(dg).outbox # <<>> =>
                    C19_Failed(handleData(State, dg, FALSE).outbox)
    /\ \A p \in PropIds :
          C19_Committed(handleSelectProperty(State, p, FALSE))
              = handleSelectProperty(State, p, TRUE)
    /\ \A p \in CtaProps :
          /\ C19_Committed(handleRequestTour(State, p, FALSE))
                = handleRequestTour(State, p, TRUE)
          /\ C19_Committed(handleRequestBrochure(State, p, FALSE))
                = handleRequestBrochure(State, p, TRUE)
          /\ \A n \in VisitorNames :
                C19_Committed(handleShareContact(State, n, p, FALSE))
                    = handleShareContact(State, n, p, TRUE)
    /\ lastEvent.ev = "select" => selectedPropertyId = lastEvent.arg
    /\ lastEvent.ev \in {"tour", "brochure", "contact"} =>
          ctaBusy /\ TruthyText(statusBanner)
    /\ lastEvent.ev \in {"connected", "reconnected"} =>
          \/ outbox = <<>>
          \/ outbox = <<Ack(lastOverlayIdRef, "rendered")>>

\* the detail of a arrived as o2 and its acknowledgment could not be published:
\* the detail, its cache, the selection and the recorded overlayId are a's and o2
C19_Witness ==
    /\ Applied("detail-update")
    /\ C19_Failed(outbox)
    /\ propertyDetail = Record("a")
    /\ detailCacheRef = Record("a")
    /\ selectedPropertyId = "a"
    /\ lastOverlayIdRef = "o2"

\* messages of a recognized type whose kind or action is none of the six
C21_Unknown ==
    {Datagram("ui.overlay", "ui.overlay",
              [EmptyPayload EXCEPT !.kind = k, !.overlayId = o,
                                   !.items = JsArray(<<"b">>)]) :
        k \in {"bogus", Undefined}, o \in OidOpt}
    \cup {Datagram(ty, ty,
                   [EmptyPayload EXCEPT !.action = a, !.overlayId = o,
                                        !.items = JsArray(<<"b">>),
                                        !.locations = JsArray(<<"Marina Gate">>)]) :
             ty \in {"client.properties", "client.leads", "client.directions"},
             a \in {"bogus", Undefined}, o \in OidOpt}

C21_Kept(r) ==
    /\ Overlay(r) = Overlay(State)
    /\ Cache(r) = Cache(State)
    /\ r.lastOverlayIdRef = lastOverlayIdRef
    /\ Acks(r.outbox) = <<>>

(* C21: a message of a recognized type whose kind or action is not one of   *)
(* the enumerated values, delivered in any reachable state, leaves the       *)
(* overlay state, the Cache Snapshot and the recorded overlayId as they were *)
(* and publishes no acknowledgment.                                          *)
C21_UnknownKindDropped ==
    transport = "up" => \A dg \in C21_Unknown : C21_Kept(Result(dg))

\* the record a detail-update carries: property ?? item in the legacy dialect
C22_RecordOf(dg) ==
    IF IsLegacy(dg) THEN CoalesceRecord(dg.payload.property, dg.payload.item)
    ELSE dg.payload.item

C22_WithRecord ==
    {dg \in {Legacy("detail-update", f) : f \in DetailFields}
            \cup {Typed("detail-update", f) : f \in DetailFields}
            \cup PropertyDetailEnvelopes :
        C22_RecordOf(dg).tag = "record"}

C22_After(r, dg) ==
    /\ r.propertyDetail = C22_RecordOf(dg)
    /\ r.selectedPropertyId = IF Truthy(C22_RecordOf(dg).id)
                              THEN C22_RecordOf(dg).id ELSE selectedPropertyId
    /\ r.menuItems = menuItems
    /\ r.directions = directions
    /\ r.leadStatus = leadStatus

(* C22: a detail-update that carries a record, in either dialect, delivered *)
(* in any reachable state, leaves propertyDetail equal to that record, sets  *)
(* selectedPropertyId to the record's id if it has one and leaves it as it   *)
(* was otherwise, and leaves menuItems, directions and leadStatus as they    *)
(* were.                                                                     *)
C22_DetailReplaces ==
    [](transport = "up" => \A dg \in C22_WithRecord : C22_After(Result(dg), dg))

\* a menu of a and b with b selected, then the detail of a: the selection is a
C22_Witness ==
    /\ Applied("detail-update")
    /\ Sequence("menu-update", "detail-update")
    /\ C22_RecordOf(LastDg) = Record("a")
    /\ propertyDetail = Record("a")
    /\ selectedPropertyId = "a"
    /\ menuItems = <<"a", "b">>

\* a typed envelope that arrives on the channel ui.overlay
C23_OnOverlayChannel(dg) == [dg EXCEPT !.topic = "ui.overlay"]

\* the typed envelopes of the sessions that carry an overlayId
C23_Typed == {dg \in Inbound : IsTyped(dg) /\ Truthy(dg.payload.overlayId)}

(* C23: a message of type client.properties, client.leads or                *)
(* client.directions is applied as the typed update it encodes whatever the  *)
(* channel it arrives on: delivered on the channel ui.overlay in any         *)
(* reachable state, it leaves what it leaves when delivered on the channel   *)
(* named after its type, and is not read as a legacy envelope.               *)
C23_TypeDecidesDialect ==
    transport = "up" =>
        \A dg \in C23_Typed : Result(C23_OnOverlayChannel(dg)) = Result(dg)

C27_LiveIsCache ==
    /\ menuItems = menuCacheRef
    /\ propertyDetail = detailCacheRef
    /\ directions = directionsCacheRef

C27_Visible(r) ==
    <<r.menuItems, r.propertyDetail, r.directions, r.selectedPropertyId, r.leadStatus>>

(* C27: in every reachable state menuItems, propertyDetail and directions   *)
(* equal the menu, detail and directions slots of the Cache Snapshot, and    *)
(* the replay that reconnect and connect run there leaves menuItems,         *)
(* propertyDetail, directions, selectedPropertyId and leadStatus as they     *)
(* are.                                                                      *)
C27_ReplayChangesNothing ==
    [](/\ C27_LiveIsCache
       /\ C27_Visible(replayCached(State, TRUE)) = C27_Visible(State)
       /\ C27_Visible(handleConnected(State, TRUE)) = C27_Visible(State))

\* the room reconnected with a menu and directions cached: both are shown as before
C27_Witness ==
    /\ lastEvent.ev = "reconnected"
    /\ Sequence("menu-update", "directions-show")
    /\ menuItems = <<"a", "b">>
    /\ menuCacheRef = <<"a", "b">>
    /\ directions.tag = "payload"
    /\ directionsCacheRef = directions

\* messages of the four conversation types, on their own channel, on no
\* channel and on the channel ui.overlay
C29_Notices ==
    {Datagram(ty, tp, [EmptyPayload EXCEPT !.text = x, !.overlayId = o]) :
        ty \in {"agent.message", "visitor.message", "system.notice", "system.message"},
        tp \in {Undefined, "chat", "ui.overlay"},
        x \in {Undefined, "", "hello"},
        o \in {Undefined, "o1"}}

C29_Kept(r) ==
    /\ Overlay(r) = Overlay(State)
    /\ Cache(r) = Cache(State)
    /\ r.lastOverlayIdRef = lastOverlayIdRef
    /\ r.outbox = <<>>

(* C29: a message of type agent.message, visitor.message, system.notice or  *)
(* system.message, delivered in any reachable state, leaves menuItems,       *)
(* propertyDetail, directions, leadStatus, selectedPropertyId, the Cache     *)
(* Snapshot and the recorded overlayId as they were and publishes nothing.   *)
C29_NoticesOnlyAppend ==
    transport = "up" => \A dg \in C29_Notices : C29_Kept(Result(dg))

C30_Intent == SelectProperty \/ RequestTour \/ RequestBrochure \/ ShareContact

(* C30: every visitor intent (select property, request tour, request        *)
(* brochure, share contact) is one publish whose overlayId is the value      *)
(* lastOverlayIdRef held when the visitor acted, undefined when none was     *)
(* recorded, and select property sets selectedPropertyId to the chosen       *)
(* propertyId whether or not the publish went through.                       *)
C30_IntentCarriesRecordedId ==
    [][C30_Intent =>
          /\ Len(outbox') = 1
          /\ outbox'[1].payload.overlayId = lastOverlayIdRef
          /\ outbox'[1].payload.propertyId = lastEvent'.arg
          /\ lastOverlayIdRef' = lastOverlayIdRef
          /\ (lastEvent'.ev = "select" => selectedPropertyId' = lastEvent'.arg)]_vars

\* a property selected while the connection is down, after two envelopes
C30_Witness ==
    /\ lastEvent.ev = "select"
    /\ transport = "down"
    /\ lastEvent.arg = "b"
    /\ selectedPropertyId = "b"
    /\ lastOverlayIdRef = "o2"
    /\ Len(outbox) = 1
    /\ outbox[1].payload.overlayId = "o2"
    /\ ~outbox[1].ok

C24_Cta == RequestTour \/ RequestBrochure \/ ShareContact

\* the handlers that are not a request and not a timer, run in the current state
C24_Others ==
    {handleSelectProperty(State, p, ok) : p \in PropIds, ok \in BOOLEAN}
        \cup {replayCached(State, ok) : ok \in BOOLEAN}
        \cup {handleConnected(State, ok) : ok \in BOOLEAN}
        \cup {handleData(State, dg, ok) : dg \in Inbound, ok \in BOOLEAN}

(* C24: after a request-tour, request-brochure or share-contact action      *)
(* ctaBusy is true, whether or not the publish went through; ctaBusy        *)
(* changes only in those actions, to true, and in the expiry of a 1200 ms   *)
(* timer, to false, and no other handler changes it; a timer is pending     *)
(* whenever ctaBusy is true, and ctaBusy always returns to false.           *)
C24_BusyExpires ==
    /\ [][/\ C24_Cta => ctaBusy'
          /\ ctaBusy' # ctaBusy =>
                \/ ctaBusy' /\ lastEvent'.ev \in {"tour", "brochure", "contact"}
                \/ ~ctaBusy' /\ lastEvent'.ev = "ctaTimeout" /\ ctaTimers' = ctaTimers - 1]_vars
    /\ [](\A r \in C24_Others : r.ctaBusy = ctaBusy)
    /\ [](ctaBusy => ctaTimers > 0)
    /\ (ctaBusy ~> ~ctaBusy)

\* a tour requested while the connection is down: the publish failed, the flag is set
C24_Witness ==
    /\ lastEvent.ev = "tour"
    /\ transport = "down"
    /\ ctaBusy
    /\ ctaTimers = 1
    /\ Len(outbox) = 1
    /\ ~outbox[1].ok

\* nothing is left to happen on its own: no banner showing, no timer pending
C25_Quiescent == ~TruthyText(statusBanner) /\ ctaTimers = 0

(* C25: leadStatus returns to absent without a further inbound envelope:    *)
(* once the status banner is dismissed and no timer is pending, leadStatus  *)
(* is null.                                                                  *)
C25_LeadStatusExpires == C25_Quiescent => leadStatus = Null

\* the acknowledgments published while dg was applied are none, or one of dg's overlayId
C26_OwnAck(dg, box) ==
    /\ Len(box) = Len(Acks(box))
    /\ Len(box) <= 1
    /\ box # <<>> =>
          /\ IsEnvelope(dg) \/ IsOverlayDatagram(dg)
          /\ Truthy(dg.payload.overlayId)
          /\ box[1].payload.overlayId = dg.payload.overlayId

(* C26: data messages are applied one at a time in the order they are      *)
(* delivered: the acknowledgments published in the step that applies an     *)
(* envelope are none or exactly one, of that envelope's own overlayId, so   *)
(* each is published before the next envelope is applied and the            *)
(* acknowledgments follow the order of delivery.                             *)
C26_AcksInDeliveryOrder ==
    [][DataReceived => C26_OwnAck(lastEvent'.dg, outbox')]_vars

\* two envelopes with an overlayId delivered in a row, the second acknowledged
C26_Witness ==
    /\ lastEvent.ev = "data"
    /\ Len(recent) = 2
    /\ recent[1].overlayId = "o1"
    /\ recent[2].overlayId = "o2"
    /\ LastOid = "o2"
    /\ outbox = <<Ack("o2", "rendered")>>

\* every entry appended since the component mounted: the notice of the
\* connection and the conversation messages that had a text
C28_Appended ==
    (IF transport = "new" THEN <<>>
     ELSE <<[role |-> "system",
             text |-> Plain("You're connected. Estate Buddy is listening.")]>>)
        \o notices

C28_MostRecent(q) ==
    IF Len(q) > TimelineLimit THEN SubSeq(q, Len(q) - TimelineLimit + 1, Len(q)) ELSE q

C28_Empty ==
    {Datagram(ty, ty, [EmptyPayload EXCEPT !.text = x]) :
        ty \in {"agent.message", "visitor.message", "system.notice", "system.message"},
        x \in {Undefined, ""}}

(* C28: the timeline never holds more than 20 entries: it is the most       *)
(* recent min(n, 20) of the n notices with a text appended so far, in the   *)
(* order they arrived, and a conversation message with an empty or missing  *)
(* text leaves it as it is.                                                  *)
C28_TimelineKeepsLast20 ==
    /\ Len(timeline) <= TimelineLimit
    /\ timeline = C28_MostRecent(C28_Appended)
    /\ transport = "up" => \A dg \in C28_Empty : Result(dg).timeline = timeline

\* 22 notices were appended: the connection's and the first of the conversation are gone
C28_Witness ==
    /\ lastEvent.ev = "data"
    /\ Len(notices) = 21
    /\ Len(timeline) = TimelineLimit
    /\ timeline[1] = notices[2]
    /\ timeline[TimelineLimit] = notices[21]
    /\ received = 22

====
